---------------------------- MODULE Spec2Model ----------------------------
(***************************************************************************)
(* Model of mcrouter/ProxyDestination.cpp: the per-destination health and  *)
(* failure-detection core (TKO handling, probe scheduler, connection       *)
(* lifecycle, state gauges).                                               *)
(*                                                                         *)
(* The ProxyDestinations share one ProxyClientShared (one TkoTracker) and  *)
(* one proxy_t (one stats table, one event base, one fiber manager), so    *)
(* every handler runs to completion on the proxy's thread and is one       *)
(* action.  Handlers are written as operators on a "world" record w (the   *)
(* values of all variables plus the log of the handler being run), so that *)
(* nested calls compose exactly as in the source.                          *)
(*                                                                         *)
(* TkoTracker, McReply and AsyncMcClient are not part of                   *)
(* ProxyDestination.cpp; they are modelled from the specification          *)
(* (sections 4.1, 6 and 7).                                                *)
(*                                                                         *)
(* A failed FBI_ASSERT stops the program: abort records which one failed   *)
(* and no action is enabled afterwards.                                    *)
(***************************************************************************)
EXTENDS Integers, Sequences, FiniteSets, TLC

\* ------------------------------------------------------------ bounds

\* probesSent_ is only reported in the TKO log; it is counted up to this
\* value and then stays there.
MaxProbes == 2

\* Probe tasks of destroyed destinations that may sit in the fiber queue.
MaxOrphans == 1

\* Largest probe_delay_max_ms of the configurations of SpecBackoff.
MaxDelayMs == 10

\* Largest timeout, in ms, given as server_timeout or to
\* updateShortestTimeout in SpecTimeout.
MaxTimeout == 2

\* ------------------------------------------------------------ constants

\* kProbeExponentialFactor = 1.5, as the fraction Num / Den
kProbeExponentialFactorNum == 3
kProbeExponentialFactorDen == 2
\* kProbeJitterMin = 0.05 and kProbeJitterMax = 0.5, in thousandths
kProbeJitterMin == 50
kProbeJitterMax == 500
kProbeJitterDelta == kProbeJitterMax - kProbeJitterMin

\* rand() / RAND_MAX in thousandths: the draws the model tries
RandDraws == {0, 1000}

\* TkoTracker configuration (owned by the FailureCounter)
HardThreshold == 1
SoftThreshold == 2

Dests == {1, 2}
NoDest == 0

Results == {"mc_res_ok", "mc_res_connect_error", "mc_res_timeout",
            "mc_res_remote_error"}

States == {"kNew", "kUp", "kClosed", "kDown"}

VARIABLES
  opts,      \* proxy->opts: the options the file reads
  tko,       \* shared->tko: the TkoTracker of the endpoint
  pd,        \* the ProxyDestination objects, by destination
  stats,     \* proxy->stats: the four num_servers_* gauges
  timers,    \* event base: the armed probe timers of each destination
  task,      \* fiber manager: the probe tasks of each destination, queued
             \* or suspended in sendSync ("sent")
  orphans,   \* fiber manager: queued probe tasks whose destination is gone
  abort,     \* "none", or the FBI_ASSERT that failed
  given,     \* history: the timeouts each destination was given, by its
             \* constructor and by updateShortestTimeout
  last       \* the handler that ran last: its destination and argument,
             \* the classification it found and the calls it made, in order

vars == <<opts, tko, pd, stats, timers, task, orphans, abort, given, last>>

\* ------------------------------------------------------------ helpers

Min(a, b) == IF a < b THEN a ELSE b

\* One entry of the call log of a handler.
Call(name, arg, ms, us) == [call |-> name, arg |-> arg, ms |-> ms, us |-> us]

Log(w, name, arg) == [w EXCEPT !.log = Append(@, Call(name, arg, 0, 0))]

Calls(log, name) == {i \in 1..Len(log) : log[i].call = name}

NCalls(log, name) == Cardinality(Calls(log, name))

BoolStr(b) == IF b THEN "true" ELSE "false"

\* FBI_ASSERT(cond) failing
Fail(w, name) == IF w.abort = "none" THEN [w EXCEPT !.abort = name] ELSE w

\* ------------------------------------------------------------ McReply

isError(reply) == reply \in {"mc_res_connect_error", "mc_res_timeout",
                             "mc_res_remote_error"}

isHardTkoError(reply) == reply = "mc_res_connect_error"

isSoftTkoError(reply) == reply = "mc_res_timeout"

\* ------------------------------------------------------------ TkoTracker

TkoInit ==
  [class |-> "Healthy", responsible |-> NoDest, hardFailures |-> 0,
   consecutive |-> [d \in Dests |-> 0],
   globalTkos |-> [hardTkos |-> 0, softTkos |-> 0]]

isTko(t) == t.class # "Healthy"

isHardTko(t) == t.class = "HardTko"

isSoftTko(t) == t.class = "SoftTko"

\* recordHardFailure(d): the tracker afterwards and the returned flag.
\* reelect: what a destination that upgrades its own SoftTko is told (the
\* specification leaves open whether it "becomes" responsible).
TkoRecordHardFailure(t, d, reelect) ==
  LET n == Min(t.hardFailures + 1, HardThreshold)
      t1 == [t EXCEPT !.hardFailures = n]
  IN  CASE t.class = "Healthy" /\ n >= HardThreshold ->
             [t |-> [t1 EXCEPT !.class = "HardTko", !.responsible = d,
                               !.globalTkos.hardTkos = @ + 1],
              ret |-> TRUE]
        [] t.class = "Healthy" -> [t |-> t1, ret |-> FALSE]
        [] t.class = "HardTko" -> [t |-> t1, ret |-> FALSE]
        [] t.class = "SoftTko" ->
             [t |-> [t1 EXCEPT !.class = "HardTko", !.responsible = d,
                               !.globalTkos.hardTkos = @ + 1,
                               !.globalTkos.softTkos = @ - 1],
              ret |-> IF t.responsible = d THEN reelect ELSE TRUE]

\* recordSoftFailure(d): only from Healthy, on SoftThreshold consecutive
\* soft errors of the same destination.
TkoRecordSoftFailure(t, d) ==
  LET n == Min(t.consecutive[d] + 1, SoftThreshold)
      t1 == [t EXCEPT !.consecutive[d] = n]
  IN  IF t.class = "Healthy" /\ n >= SoftThreshold
      THEN [t |-> [t1 EXCEPT !.class = "SoftTko", !.responsible = d,
                             !.globalTkos.softTkos = @ + 1],
            ret |-> TRUE]
      ELSE [t |-> t1, ret |-> FALSE]

\* recordSuccess(d)
TkoRecordSuccess(t, d) ==
  IF t.responsible = d
  THEN [t EXCEPT !.class = "Healthy", !.responsible = NoDest,
                 !.hardFailures = 0,
                 !.consecutive = [x \in Dests |-> 0],
                 !.globalTkos.hardTkos =
                    IF t.class = "HardTko" THEN @ - 1 ELSE @,
                 !.globalTkos.softTkos =
                    IF t.class = "SoftTko" THEN @ - 1 ELSE @]
  ELSE [t EXCEPT !.consecutive[d] = 0]

\* removeDestination(d): the back-pointer is cleared when the responsible
\* destination is destroyed.
TkoRemoveDestination(t, d) ==
  IF t.responsible = d
  THEN [t EXCEPT !.responsible = NoDest, !.consecutive[d] = 0]
  ELSE [t EXCEPT !.consecutive[d] = 0]

\* ------------------------------------------------------------ ProxyDestination

\* The object after its constructor (lines 266-283).
NewPd ==
  [alive |-> "live", state |-> "kNew", client |-> "none", resetting |-> 0,
   sending_probes |-> FALSE, probe_timer |-> FALSE,
   probe_delay_next_ms |-> 0, probesSent |-> 0, probe_req |-> FALSE,
   shortestTimeout |-> 0, writeTimeout |-> 0]

\* No object: the destination is not in the configuration.
DeadPd == [NewPd EXCEPT !.alive = "dead"]

getStatName(st) ==
  CASE st = "kNew" -> "num_servers_new_stat"
    [] st = "kUp" -> "num_servers_up_stat"
    [] st = "kClosed" -> "num_servers_closed_stat"
    [] st = "kDown" -> "num_servers_down_stat"

StatNames == {getStatName(st) : st \in States}

stat_incr(w, name) == [w EXCEPT !.stats[name] = @ + 1]

stat_decr(w, name) == [w EXCEPT !.stats[name] = @ - 1]

setState_NoDecr(w, d, new_st) ==
  IF w.pd[d].state # new_st
  THEN [stat_incr(w, getStatName(new_st)) EXCEPT !.pd[d].state = new_st]
  ELSE w

setState(w, d, new_st) ==
  LET old_st == w.pd[d].state
  IN  IF old_st # new_st
      THEN LET w1 == stat_decr(w, getStatName(old_st))
               w2 == stat_incr(w1, getStatName(new_st))
           IN  [w2 EXCEPT !.pd[d].state = new_st]
      ELSE w

\* The jitter of schedule_next_probe, in thousandths, for the draw r.
JitterPct(r) == (r * kProbeJitterDelta) \div 1000 + kProbeJitterMin

\* uint64_t delay_us = (double)delay_ms * 1000 * (1.0 + tmo_jitter_pct)
DelayUs(delay_ms, r) == (delay_ms * 1000 * (1000 + JitterPct(r))) \div 1000

NextDelayMs_NoCap(cur, max) ==
  IF cur < 2
  THEN 2
  ELSE (cur * kProbeExponentialFactorNum) \div kProbeExponentialFactorDen

NextDelayMs_NoLift(cur, max) ==
  LET grown == (cur * kProbeExponentialFactorNum)
                  \div kProbeExponentialFactorDen
  IN  IF grown > max THEN max ELSE grown

\* probe_delay_next_ms after lines 70-78
NextDelayMs(cur, max) ==
  LET grown == IF cur < 2
               THEN 2
               ELSE (cur * kProbeExponentialFactorNum)
                       \div kProbeExponentialFactorDen
  IN  IF grown > max THEN max ELSE grown

asox_add_timer(w, d) == [w EXCEPT !.timers[d] = @ + 1]

asox_remove_timer(w, d) == [w EXCEPT !.timers[d] = @ - 1]

schedule_next_probe(w, d, r) ==
  LET delay_ms == w.pd[d].probe_delay_next_ms
      delay_us == DelayUs(delay_ms, r)
      w1 == [w EXCEPT !.pd[d].probe_delay_next_ms =
                         NextDelayMs(delay_ms, opts.probe_delay_max_ms),
                      !.log = Append(@, Call("schedule_next_probe", "",
                                             delay_ms, delay_us))]
  IN  IF w.abort # "none" THEN w
      ELSE IF opts.disable_tko_tracking \/ ~(delay_us > 0)
              \/ w1.pd[d].probe_timer
      THEN Fail(w1, "schedule_next_probe")
      ELSE [asox_add_timer(w1, d) EXCEPT !.pd[d].probe_timer = TRUE]

start_sending_probes_NoReset(w, d, r) ==
  IF w.abort # "none" THEN w
  ELSE IF w.pd[d].sending_probes
  THEN Fail(Log(w, "start_sending_probes", ""), "start_sending_probes")
  ELSE schedule_next_probe(
         [Log(w, "start_sending_probes", "") EXCEPT
            !.pd[d].sending_probes = TRUE,
            !.pd[d].probe_delay_next_ms =
               IF @ = 0 THEN opts.probe_delay_initial_ms ELSE @],
         d, r)

start_sending_probes(w, d, r) ==
  IF w.abort # "none" THEN w
  ELSE IF w.pd[d].sending_probes
  THEN Fail(Log(w, "start_sending_probes", ""), "start_sending_probes")
  ELSE schedule_next_probe(
         [Log(w, "start_sending_probes", "") EXCEPT
            !.pd[d].sending_probes = TRUE,
            !.pd[d].probe_delay_next_ms = opts.probe_delay_initial_ms],
         d, r)

stop_sending_probes_KeepCount(w, d) ==
  LET w1 == [Log(w, "stop_sending_probes", "") EXCEPT
               !.pd[d].sending_probes = FALSE]
  IN  IF w1.pd[d].probe_timer
      THEN [asox_remove_timer(w1, d) EXCEPT !.pd[d].probe_timer = FALSE]
      ELSE w1

stop_sending_probes(w, d) ==
  LET w1 == [Log(w, "stop_sending_probes", "") EXCEPT
               !.pd[d].probesSent = 0,
               !.pd[d].sending_probes = FALSE]
  IN  IF w1.pd[d].probe_timer
      THEN [asox_remove_timer(w1, d) EXCEPT !.pd[d].probe_timer = FALSE]
      ELSE w1

onTkoEvent(w, d, event, result) ==
  [w EXCEPT !.log = Append(@, Call("onTkoEvent", event,
                                   w.pd[d].probesSent, 0))]

recordHardFailure(w, d, reelect) ==
  LET got == TkoRecordHardFailure(w.tko, d, reelect)
  IN  [w |-> [Log(w, "recordHardFailure", BoolStr(got.ret)) EXCEPT
                !.tko = got.t],
       ret |-> got.ret]

recordSoftFailure(w, d) ==
  LET got == TkoRecordSoftFailure(w.tko, d)
  IN  [w |-> [Log(w, "recordSoftFailure", BoolStr(got.ret)) EXCEPT
                !.tko = got.t],
       ret |-> got.ret]

recordSuccess(w, d) ==
  [Log(w, "recordSuccess", "") EXCEPT !.tko = TkoRecordSuccess(w.tko, d)]

removeDestination(w, d) ==
  [Log(w, "removeDestination", "") EXCEPT
     !.tko = TkoRemoveDestination(w.tko, d)]

unmark_tko_NoStop(w, d, reply) ==
  LET w1 == recordSuccess(w, d)
  IN  IF w1.pd[d].sending_probes
      THEN onTkoEvent(w1, d, "UnMarkTko", reply)
      ELSE w1

unmark_tko(w, d, reply) ==
  LET w1 == recordSuccess(w, d)
  IN  IF w1.pd[d].sending_probes
      THEN stop_sending_probes(onTkoEvent(w1, d, "UnMarkTko", reply), d)
      ELSE w1

CountsAsSuccess_Any(w, d, is_probe_req) == TRUE

\* Line 171: while probing, only the reply of a probe counts as a success.
CountsAsSuccess(w, d, is_probe_req) ==
  ~w.pd[d].sending_probes \/ is_probe_req

\* env: the draw of rand() and the tracker's answer to a self-upgrade.
Env == [r : RandDraws, reelect : BOOLEAN]

handle_tko(w, d, reply, is_probe_req, env) ==
  IF w.abort # "none" THEN w
  ELSE IF w.pd[d].resetting = 1 \/ opts.disable_tko_tracking THEN w
  ELSE
    LET got ==
          IF isError(reply)
          THEN IF isHardTkoError(reply)
               THEN LET g == recordHardFailure(w, d, env.reelect)
                    IN  IF g.ret
                        THEN [w |-> onTkoEvent(g.w, d, "MarkHardTko", reply),
                              ret |-> TRUE]
                        ELSE g
               ELSE IF isSoftTkoError(reply)
               THEN LET g == recordSoftFailure(w, d)
                    IN  IF g.ret
                        THEN [w |-> onTkoEvent(g.w, d, "MarkSoftTko", reply),
                              ret |-> TRUE]
                        ELSE g
               ELSE [w |-> w, ret |-> FALSE]
          ELSE IF CountsAsSuccess(w, d, is_probe_req)
               THEN [w |-> unmark_tko(w, d, reply), ret |-> FALSE]
               ELSE [w |-> w, ret |-> FALSE]
    IN  IF got.ret THEN start_sending_probes(got.w, d, env.r) ELSE got.w

ProbeSlotEmpty_Always(w, d) == TRUE

\* Line 103: the previous probe might still be in flight.
ProbeSlotEmpty(w, d) == ~w.pd[d].probe_req

\* The timer callback (lines 95-126) of a timer of destination d.  The
\* handle holds only whether a timer is set, so FBI_ASSERT(timer ==
\* probe_timer) fails when none is.
on_timer_NoRearm(w, d, r) ==
  LET w1 == [asox_remove_timer(w, d) EXCEPT !.pd[d].probe_timer = FALSE]
  IN  IF ~w.pd[d].probe_timer
      THEN Fail(w, "on_timer")
      ELSE IF w1.pd[d].sending_probes
      THEN IF ProbeSlotEmpty(w1, d)
           THEN [Log(w1, "addTask", "") EXCEPT
                   !.pd[d].probe_req = TRUE,
                   !.pd[d].probesSent = Min(@ + 1, MaxProbes),
                   !.task[d].queued = @ + 1]
           ELSE schedule_next_probe(w1, d, r)
      ELSE w1

on_timer(w, d, r) ==
  LET w1 == [asox_remove_timer(w, d) EXCEPT !.pd[d].probe_timer = FALSE]
  IN  IF ~w.pd[d].probe_timer
      THEN Fail(w, "on_timer")
      ELSE IF w1.pd[d].sending_probes
      THEN LET w2 == IF ProbeSlotEmpty(w1, d)
                     THEN [Log(w1, "addTask", "") EXCEPT
                             !.pd[d].probe_req = TRUE,
                             !.pd[d].probesSent = Min(@ + 1, MaxProbes),
                             !.task[d].queued = @ + 1]
                     ELSE w1
           IN  schedule_next_probe(w2, d, r)
      ELSE w1

onReply(w, d, reply, env) ==
  LET w1 == handle_tko(w, d, reply, FALSE, env)
  IN  IF w1.abort # "none" THEN w1
      ELSE Log(Log(w1, "stats_.results", reply), "insertSample", "")

on_up(w, d) ==
  IF w.pd[d].state = "kUp"
  THEN Fail(w, "on_up")
  ELSE setState(Log(w, "on_up", ""), d, "kUp")

on_down_IgnoreResetting(w, d, env) ==
  handle_tko(setState(Log(w, "on_down", ""), d, "kDown"), d,
             "mc_res_connect_error", FALSE, env)

on_down(w, d, env) ==
  IF w.pd[d].resetting = 1
  THEN setState(Log(w, "on_down", ""), d, "kClosed")
  ELSE handle_tko(setState(Log(w, "on_down", ""), d, "kDown"), d,
                  "mc_res_connect_error", FALSE, env)

\* ProxyDestination::create and the constructor (lines 235-244, 266-283)
Construct(w, d) ==
  stat_incr([w EXCEPT !.pd[d] = NewPd, !.given[d] = {0}],
            "num_servers_new_stat")

\* The constructor given ro_.server_timeout = t (line 271).
ConstructWith(w, d, t) ==
  [Construct(w, d) EXCEPT !.pd[d].shortestTimeout = t, !.given[d] = {t}]

\* The destructor (lines 246-264).  The status callbacks are cleared before
\* closeNow, so closing the client delivers no on_down.  A probe task still
\* queued keeps only its weak handle: it is an orphan from now on.  (No
\* task is suspended in sendSync: such a task holds a strong handle.)
Destruct_NoStop(w, d) ==
  LET w1 == removeDestination(w, d)
      w2 == IF w1.pd[d].client # "none" THEN Log(w1, "closeNow", "") ELSE w1
      w4 == stat_decr(w2, getStatName(w2.pd[d].state))
  IN  [w4 EXCEPT !.pd[d] = DeadPd,
                 !.given[d] = {},
                 !.task[d].queued = 0,
                 !.orphans = @ + w.task[d].queued]

Destruct(w, d) ==
  LET w1 == removeDestination(w, d)
      w2 == IF w1.pd[d].client # "none" THEN Log(w1, "closeNow", "") ELSE w1
      w3 == IF w2.pd[d].sending_probes
            THEN stop_sending_probes(
                   onTkoEvent(w2, d, "RemoveFromConfig", "mc_res_ok"), d)
            ELSE w2
      w4 == stat_decr(w3, getStatName(w3.pd[d].state))
  IN  [w4 EXCEPT !.pd[d] = DeadPd,
                 !.given[d] = {},
                 !.task[d].queued = 0,
                 !.orphans = @ + w.task[d].queued]

initializeAsyncMcClient_NoTimeout(w, d) ==
  [Log(w, "initializeAsyncMcClient", "") EXCEPT !.pd[d].client = "idle"]

\* options.writeTimeout = shortestTimeout (line 324)
initializeAsyncMcClient(w, d) ==
  [Log(w, "initializeAsyncMcClient", "") EXCEPT
     !.pd[d].client = "idle",
     !.pd[d].writeTimeout = w.pd[d].shortestTimeout]

getAsyncMcClient(w, d) ==
  IF w.pd[d].client = "none" THEN initializeAsyncMcClient(w, d) ELSE w

\* client_->closeNow() with the status callbacks installed: a connected
\* client reports on_down; one that is not connected may (a connect in
\* progress) or may not.  A reply of a request failed by the close may be
\* handed to onReply before closeNow returns.
closeNow(w, d, down, reply, env) ==
  LET w1 == Log(w, "closeNow", "")
      w2 == IF w1.pd[d].client = "up" \/ down
            THEN on_down([w1 EXCEPT !.pd[d].client = "idle"], d, env)
            ELSE w1
  IN  IF reply \in Results THEN onReply(w2, d, reply, env) ELSE w2

resetInactive_NoTest(w, d, down, reply, env) ==
  LET w1 == [Log(w, "resetting", "1") EXCEPT !.pd[d].resetting = 1]
      w2 == closeNow(w1, d, down, reply, env)
  IN  [w2 EXCEPT !.pd[d].client = "none", !.pd[d].writeTimeout = 0,
                 !.pd[d].resetting = 0]

resetInactive(w, d, down, reply, env) ==
  IF w.pd[d].client # "none"
  THEN LET w1 == [Log(w, "resetting", "1") EXCEPT !.pd[d].resetting = 1]
           w2 == closeNow(w1, d, down, reply, env)
       IN  [w2 EXCEPT !.pd[d].client = "none", !.pd[d].writeTimeout = 0,
                      !.pd[d].resetting = 0]
  ELSE w

updateShortestTimeout_Max(w, d, timeout) ==
  LET w1 == [w EXCEPT
               !.log = Append(@, Call("updateShortestTimeout", "",
                                      timeout, 0)),
               !.given[d] = @ \cup {timeout}]
  IN  IF timeout = 0 THEN w1
      ELSE IF w1.pd[d].shortestTimeout = 0
              \/ w1.pd[d].shortestTimeout < timeout
      THEN [w1 EXCEPT !.pd[d].shortestTimeout = timeout,
                      !.pd[d].writeTimeout =
                         IF w1.pd[d].client # "none" THEN timeout ELSE @]
      ELSE w1

\* updateShortestTimeout (lines 417-428)
updateShortestTimeout(w, d, timeout) ==
  LET w1 == [w EXCEPT
               !.log = Append(@, Call("updateShortestTimeout", "",
                                      timeout, 0)),
               !.given[d] = @ \cup {timeout}]
  IN  IF timeout = 0 THEN w1
      ELSE IF w1.pd[d].shortestTimeout = 0
              \/ w1.pd[d].shortestTimeout > timeout
      THEN [w1 EXCEPT !.pd[d].shortestTimeout = timeout,
                      !.pd[d].writeTimeout =
                         IF w1.pd[d].client # "none" THEN timeout ELSE @]
      ELSE w1

\* The body of the probe task up to its suspension in sendSync
\* (lines 110-119).
ProbeTaskStart(w, d) ==
  LET w1 == getAsyncMcClient(Log(w, "markAsActive", ""), d)
      w2 == [w1 EXCEPT !.log = Append(@, Call("sendSync", "",
                                             w1.pd[d].shortestTimeout, 0))]
  IN  [w2 EXCEPT !.task[d].queued = @ - 1, !.task[d].sent = @ + 1]

\* The probe task from the reply of sendSync to its end (lines 120-122);
\* its strong handle is dropped at the end, which destroys a destination
\* that nothing else owns.
ProbeTaskFinish(w, d, reply, env) ==
  LET w1 == handle_tko(w, d, reply, TRUE, env)
      w2 == IF w1.abort # "none" THEN w1
            ELSE [Log(w1, "probe_req.reset", "") EXCEPT
                    !.pd[d].probe_req = FALSE, !.task[d].sent = @ - 1]
  IN  IF w2.abort = "none" /\ w2.pd[d].alive = "released"
         /\ w2.task[d].sent = 0
      THEN Destruct(w2, d)
      ELSE w2

\* ------------------------------------------------------------ actions

World ==
  [tko |-> tko, pd |-> pd, stats |-> stats, timers |-> timers, task |-> task,
   orphans |-> orphans, abort |-> abort, given |-> given, log |-> <<>>]

\* The handler op of destination d ran and left the world w.
Commit(w, op, d, arg) ==
  /\ abort = "none"
  /\ tko' = w.tko
  /\ pd' = w.pd
  /\ stats' = w.stats
  /\ timers' = w.timers
  /\ task' = w.task
  /\ orphans' = w.orphans
  /\ abort' = w.abort
  /\ given' = w.given
  /\ last' = [op |-> op, d |-> d, arg |-> arg, was |-> tko.class,
              log |-> w.log]
  /\ UNCHANGED opts

Alive(d) == pd[d].alive # "dead"

Owned(d) == pd[d].alive = "live"

\* The choices of a handler that is given reply: reelect is a choice only
\* where the tracker's answer is open.
EnvFor(d, reply) ==
  {env \in Env :
     env.reelect =>
       /\ tko.class = "SoftTko"
       /\ tko.responsible = d
       /\ isHardTkoError(reply)}

\* The configuration gains destination d.
Create(d) ==
  /\ pd[d].alive = "dead"
  /\ Commit(Construct(World, d), "create", d, "")

\* The configuration drops destination d: the destructor runs now, or at
\* the end of the probe task that holds a strong handle.
Release(d) ==
  /\ Owned(d)
  /\ IF task[d].sent > 0
     THEN Commit([World EXCEPT !.pd[d].alive = "released"], "release", d, "")
     ELSE /\ orphans + task[d].queued <= MaxOrphans
          /\ Commit(Destruct(World, d), "destroy", d, "")

\* A request is sent through the destination (the client is created
\* lazily).
Send(d) ==
  /\ Owned(d)
  /\ Commit(getAsyncMcClient(Log(World, "markAsActive", ""), d),
            "send", d, "")

\* The configuration gains destination d with a server_timeout.
Configure(d) ==
  /\ pd[d].alive = "dead"
  /\ \E t \in 0..MaxTimeout :
       Commit(ConstructWith(World, d, t), "create", d, "")

\* A route that uses the destination reports its timeout.
UpdateShortestTimeout(d) ==
  /\ Owned(d)
  /\ \E t \in 0..MaxTimeout :
       Commit(updateShortestTimeout(World, d, t),
              "updateShortestTimeout", d, "")

OnReply(d) ==
  /\ Owned(d)
  /\ \E reply \in Results : \E env \in EnvFor(d, reply) :
       Commit(onReply(World, d, reply, env), "onReply", d, reply)

ClientUp(d) ==
  /\ Alive(d)
  /\ pd[d].client = "idle"
  /\ Commit(on_up([World EXCEPT !.pd[d].client = "up"], d), "on_up", d, "")

ClientDown(d) ==
  /\ Alive(d)
  /\ pd[d].client \in {"idle", "up"}
  /\ \E env \in EnvFor(d, "mc_res_connect_error") :
       Commit(on_down([World EXCEPT !.pd[d].client = "idle"], d, env),
              "on_down", d, "")

ResetInactive(d) ==
  /\ Alive(d)
  /\ \E down \in BOOLEAN, reply \in Results \cup {"none"} :
       \E env \in EnvFor(d, reply) :
         Commit(resetInactive(World, d, down, reply, env),
                "resetInactive", d, reply)

\* A timer that is armed fires, whether or not its destination is still
\* there (on_timer asserts that it is).
OnTimer(d) ==
  /\ timers[d] > 0
  /\ \E r \in RandDraws :
       Commit(on_timer(World, d, r), "on_timer", d, "")

ProbeTaskRun(d) ==
  /\ task[d].queued > 0
  /\ Commit(ProbeTaskStart(World, d), "probe_start", d, "")

\* A probe task whose destination is gone: selfPtr.lock() fails.
OrphanTaskRun ==
  /\ orphans > 0
  /\ Commit([World EXCEPT !.orphans = @ - 1], "probe_orphan", NoDest, "")

ProbeReply(d) ==
  /\ task[d].sent > 0
  /\ \E reply \in Results : \E env \in EnvFor(d, reply) :
       Commit(ProbeTaskFinish(World, d, reply, env), "probe_reply", d, reply)

OptsSet(inits, maxes, disables) ==
  {o \in [probe_delay_initial_ms : inits, probe_delay_max_ms : maxes,
          disable_tko_tracking : disables] :
     o.probe_delay_initial_ms <= o.probe_delay_max_ms}

InitWith(os, ds) ==
  /\ opts \in os
  /\ tko = TkoInit
  /\ pd = [d \in Dests |-> IF d \in ds THEN NewPd ELSE DeadPd]
  /\ stats = [n \in StatNames |->
                IF n = "num_servers_new_stat" THEN Cardinality(ds) ELSE 0]
  /\ timers = [d \in Dests |-> 0]
  /\ task = [d \in Dests |-> [queued |-> 0, sent |-> 0]]
  /\ orphans = 0
  /\ abort = "none"
  /\ given = [d \in Dests |-> IF d \in ds THEN {0} ELSE {}]
  /\ last = [op |-> "init", d |-> NoDest, arg |-> "", was |-> "Healthy",
             log |-> <<>>]

\* ---- Spec: one destination, every operation.

Init == InitWith(OptsSet({1}, {3}, {FALSE}), {1})

Next ==
  \/ Create(1)
  \/ Release(1)
  \/ Send(1)
  \/ OnReply(1)
  \/ ClientUp(1)
  \/ ClientDown(1)
  \/ ResetInactive(1)
  \/ OnTimer(1)
  \/ ProbeTaskRun(1)
  \/ OrphanTaskRun
  \/ ProbeReply(1)

Spec == Init /\ [][Next]_vars

\* ---- SpecReplies: two destinations of one endpoint, never destroyed;
\* replies, connection errors, timers and probes.

InitShared == InitWith(OptsSet({1}, {2}, {FALSE}), Dests)

NextReplies ==
  \/ \E d \in Dests : OnReply(d)
  \/ \E d \in Dests : OnTimer(d)
  \/ \E d \in Dests : ProbeTaskRun(d)
  \/ \E d \in Dests : ProbeReply(d)

SpecReplies ==
  InitShared /\ [][NextReplies \/ \E d \in Dests : ClientDown(d)]_vars

\* ---- SpecShared: two destinations of one endpoint; replies, timers,
\* probes, destruction and re-creation.

NextShared ==
  \/ NextReplies
  \/ \E d \in Dests : Release(d)
  \/ \E d \in Dests : Create(d)
  \/ OrphanTaskRun

SpecShared == InitShared /\ [][NextShared]_vars

\* ---- SpecLifecycle: two destinations on one proxy, TKO tracking
\* disabled; construction, connection events, reset and destruction.

InitLifecycle == InitWith(OptsSet({1}, {2}, {TRUE}), Dests)

NextLifecycle ==
  \/ \E d \in Dests : Create(d)
  \/ \E d \in Dests : Release(d)
  \/ \E d \in Dests : Send(d)
  \/ \E d \in Dests : OnReply(d)
  \/ \E d \in Dests : ClientUp(d)
  \/ \E d \in Dests : ClientDown(d)
  \/ \E d \in Dests : ResetInactive(d)

SpecLifecycle == InitLifecycle /\ [][NextLifecycle]_vars

\* ---- SpecBackoff: one destination under every configuration with
\* 1 <= probe_delay_initial_ms <= probe_delay_max_ms <= MaxDelayMs.

InitBackoff ==
  InitWith(OptsSet(1..MaxDelayMs, 1..MaxDelayMs, {FALSE}), {1})

NextBackoff ==
  \/ OnReply(1)
  \/ OnTimer(1)
  \/ ProbeTaskRun(1)
  \/ ProbeReply(1)

SpecBackoff == InitBackoff /\ [][NextBackoff]_vars

\* ---- SpecTimeout: one destination, configured with any server_timeout;
\* timeout updates, sends, client resets, replies and probes.

InitTimeout == InitWith(OptsSet({1}, {1}, {FALSE}), {})

NextTimeout ==
  \/ Configure(1)
  \/ UpdateShortestTimeout(1)
  \/ Send(1)
  \/ ResetInactive(1)
  \/ OnReply(1)
  \/ OnTimer(1)
  \/ ProbeTaskRun(1)
  \/ ProbeReply(1)

SpecTimeout == InitTimeout /\ [][NextTimeout]_vars

\* ------------------------------------------------------------ claims

\* The destinations that run a probe loop.
Probers == {d \in Dests : pd[d].alive # "dead" /\ pd[d].sending_probes}

HasCall(name) == NCalls(last.log, name) > 0

\* C1: of the destinations of one endpoint at most one has sending_probes
\* set at any time, and exactly one has it while the endpoint is TKO.
C1_ExactlyOneProbeLoop ==
  abort = "none" =>
    /\ Cardinality(Probers) <= 1
    /\ isTko(tko) => Cardinality(Probers) = 1

\* C2: a success reply that is not a probe's, handled by a destination that
\* is sending probes, records no success, emits no TKO event and leaves the
\* classification, sending_probes, the timer and probesSent as they were.
C2_InflightSuccessIgnored ==
  [][\A d \in Dests :
       (/\ last'.op = "onReply" /\ last'.d = d /\ ~isError(last'.arg)
        /\ pd[d].sending_probes)
       => /\ NCalls(last'.log, "recordSuccess") = 0
          /\ NCalls(last'.log, "onTkoEvent") = 0
          /\ tko' = tko
          /\ pd'[d].sending_probes
          /\ pd'[d].probe_timer = pd[d].probe_timer
          /\ timers' = timers
          /\ pd'[d].probesSent = pd[d].probesSent]_vars

C2_Witness ==
  /\ last.op = "onReply" /\ last.arg = "mc_res_ok"
  /\ pd[last.d].sending_probes /\ pd[last.d].probe_timer
  /\ isTko(tko)

\* C3: a destination has at most one probe outstanding (queued or suspended
\* in sendSync) and at most one probe timer armed, and the assertion of
\* schedule_next_probe (probe_timer == nullptr) never fails.
C3_OneProbeOneTimer ==
  /\ abort # "schedule_next_probe"
  /\ \A d \in Dests :
       /\ timers[d] <= 1
       /\ task[d].queued + task[d].sent <= 1
       /\ pd[d].alive # "dead" =>
            (pd[d].probe_req <=> task[d].queued + task[d].sent = 1)

\* A tick that found the previous probe still in flight and issued none.
C3_Witness ==
  /\ last.op = "on_timer" /\ ~HasCall("addTask")
  /\ HasCall("schedule_next_probe")
  /\ task[last.d].sent = 1 /\ timers[last.d] = 1

\* C4: an endpoint is never left TKO with no destination probing it (so
\* that, once its probes succeed, it becomes Healthy again), also when the
\* responsible destination is destroyed while the endpoint is TKO.
C4_NeverTkoWithoutProber ==
  abort = "none" => (isTko(tko) => Probers # {})

Events(log, event) ==
  {i \in 1..Len(log) : log[i].call = "onTkoEvent" /\ log[i].arg = event}

\* C5: the success reply of a probe of the destination that is responsible
\* for a HardTko and is probing makes, in that step, the classification
\* Healthy, emits exactly one TKO event (UnMarkTko), clears sending_probes,
\* cancels the timer and leaves probesSent 0.
C5_ProbeSuccessUnmarks ==
  [][\A d \in Dests :
       (/\ last'.op = "probe_reply" /\ last'.d = d /\ ~isError(last'.arg)
        /\ tko.class = "HardTko" /\ tko.responsible = d
        /\ pd[d].sending_probes)
       => /\ tko'.class = "Healthy"
          /\ Cardinality(Events(last'.log, "UnMarkTko")) = 1
          /\ NCalls(last'.log, "onTkoEvent") = 1
          /\ ~pd'[d].sending_probes
          /\ ~pd'[d].probe_timer
          /\ timers'[d] = 0
          /\ pd'[d].probesSent = 0]_vars

C5_Witness ==
  /\ last.op = "probe_reply" /\ last.arg = "mc_res_ok"
  /\ last.was = "HardTko"
  /\ Events(last.log, "UnMarkTko") # {}
  /\ tko.class = "Healthy"
  /\ pd[last.d].alive = "live" /\ ~pd[last.d].sending_probes

LiveDests == {d \in Dests : pd[d].alive # "dead"}

InState(st) == {d \in LiveDests : pd[d].state = st}

\* C6: each gauge is the number of live destinations in that state (so the
\* four add up to the number of live destinations), and a change of a
\* destination's state takes 1 from the old state's gauge and adds 1 to the
\* new state's gauge, and changes no other gauge.
C6_Gauges ==
  /\ [](/\ \A st \in States :
            stats[getStatName(st)] = Cardinality(InState(st))
        /\ stats["num_servers_new_stat"] + stats["num_servers_up_stat"]
             + stats["num_servers_closed_stat"]
             + stats["num_servers_down_stat"] = Cardinality(LiveDests))
  /\ [][\A d \in Dests :
          (/\ pd[d].alive # "dead" /\ pd'[d].alive # "dead"
           /\ pd'[d].state # pd[d].state)
          => stats' = [stats EXCEPT
                         ![getStatName(pd[d].state)] = @ - 1,
                         ![getStatName(pd'[d].state)] = @ + 1]]_vars

C6_Witness ==
  /\ last.op = "resetInactive"
  /\ \E d \in Dests : pd[d].alive # "dead" /\ pd[d].state = "kUp"
  /\ pd[last.d].state = "kClosed"
  /\ stats["num_servers_up_stat"] = 1
  /\ stats["num_servers_closed_stat"] = 1

\* The schedule_next_probe calls of a handler's log.
Scheduled(log) == {i \in 1..Len(log) : log[i].call = "schedule_next_probe"}

\* C7: start_sending_probes sets probe_delay_next_ms to
\* probe_delay_initial_ms (the first delay used is the initial one); while
\* probes are being sent it stays within [probe_delay_initial_ms,
\* probe_delay_max_ms], and it never decreases between a start and the
\* following stop.
C7_DelayRange ==
  /\ [](\A d \in Dests :
          (pd[d].alive # "dead" /\ pd[d].sending_probes) =>
            /\ opts.probe_delay_initial_ms <= pd[d].probe_delay_next_ms
            /\ pd[d].probe_delay_next_ms <= opts.probe_delay_max_ms)
  /\ [][\A d \in Dests :
          /\ (/\ last'.d = d /\ abort' = "none"
              /\ NCalls(last'.log, "start_sending_probes") > 0)
             => \E i \in Scheduled(last'.log) :
                  /\ last'.log[i - 1].call = "start_sending_probes"
                  /\ last'.log[i].ms = opts.probe_delay_initial_ms
          /\ (/\ pd[d].sending_probes /\ pd'[d].sending_probes
              /\ ~(last'.d = d /\ NCalls(last'.log, "start_sending_probes") > 0))
             => pd'[d].probe_delay_next_ms >= pd[d].probe_delay_next_ms]_vars

\* An episode that starts from an initial delay of 3 ms.
C7_Witness ==
  /\ opts.probe_delay_initial_ms = 3 /\ opts.probe_delay_max_ms = 10
  /\ HasCall("start_sending_probes")
  /\ last.was = "Healthy"
  /\ \E i \in Scheduled(last.log) : last.log[i].ms = 3
  /\ pd[last.d].probe_delay_next_ms = 4
  /\ timers[last.d] = 1

DelaySequence == <<1, 2, 3, 4, 6, 9, 10, 10>>

\* The delay that follows delay_ms in DelaySequence.
DelayAfter(delay_ms) ==
  DelaySequence[(CHOOSE i \in 1..(Len(DelaySequence) - 1) :
                   DelaySequence[i] = delay_ms) + 1]

\* C8: with probe_delay_initial_ms = 1 and probe_delay_max_ms = 10 the
\* delays delay_ms of the schedule_next_probe calls of one episode are
\* 1, 2, 3, 4, 6, 9, 10, 10, ...: the first is 1, each call uses the delay
\* the call before it left, and a call that uses a delay of the sequence
\* leaves the one that follows it; each timer is armed with a delay of
\* 1050 * delay_ms to 1500 * delay_ms microseconds.
C8_DelaySequence ==
  [][(opts.probe_delay_initial_ms = 1 /\ opts.probe_delay_max_ms = 10) =>
       \A i \in Scheduled(last'.log) :
         LET d == last'.d
             delay_ms == last'.log[i].ms
         IN  /\ delay_ms =
                  IF NCalls(last'.log, "start_sending_probes") > 0
                  THEN DelaySequence[1]
                  ELSE pd[d].probe_delay_next_ms
             /\ \E k \in 1..Len(DelaySequence) : DelaySequence[k] = delay_ms
             /\ pd'[d].probe_delay_next_ms = DelayAfter(delay_ms)
             /\ last'.log[i].us >= 1050 * delay_ms
             /\ last'.log[i].us <= 1500 * delay_ms]_vars

\* The eighth timer of an episode: 10 after 10.
C8_Witness ==
  /\ opts.probe_delay_initial_ms = 1 /\ opts.probe_delay_max_ms = 10
  /\ last.op = "on_timer"
  /\ \E i \in Scheduled(last.log) :
       last.log[i].ms = 10 /\ last.log[i].us = 15000
  /\ pd[last.d].probe_delay_next_ms = 10

\* A connect_error, in a reply or from the client going down, handled by a
\* destination that is not probing, for an endpoint that is Healthy.
ConnectErrorOnHealthy ==
  /\ opts.probe_delay_initial_ms = 1 /\ HardThreshold = 1
  /\ tko.class = "Healthy"
  /\ last'.op \in {"onReply", "on_down"}
  /\ last'.op = "onReply" => last'.arg = "mc_res_connect_error"
  /\ ~pd[last'.d].sending_probes

\* C9 as claimed: with hard-threshold 1 and probe_delay_initial_ms 1, a
\* connect_error on a Healthy endpoint makes it HardTko with the destination
\* responsible, emits MarkHardTko, and the first probe timer armed by
\* start_sending_probes has a delay of 2100 to 3000 microseconds.
C9_FirstDelayTwoMs ==
  [][ConnectErrorOnHealthy
     => /\ tko'.class = "HardTko" /\ tko'.responsible = last'.d
        /\ Events(last'.log, "MarkHardTko") # {}
        /\ NCalls(last'.log, "start_sending_probes") = 1
        /\ Cardinality(Scheduled(last'.log)) = 1
        /\ timers'[last'.d] = 1
        /\ \A i \in Scheduled(last'.log) :
             last'.log[i].us >= 2100 /\ last'.log[i].us <= 3000]_vars

\* C9 as amended: that first timer has a delay of 1050 to 1500
\* microseconds (1 ms, the initial delay, times 1.05 to 1.50).
C9_FirstDelayInitial ==
  [][ConnectErrorOnHealthy
     => /\ tko'.class = "HardTko" /\ tko'.responsible = last'.d
        /\ Events(last'.log, "MarkHardTko") # {}
        /\ NCalls(last'.log, "start_sending_probes") = 1
        /\ Cardinality(Scheduled(last'.log)) = 1
        /\ timers'[last'.d] = 1
        /\ \A i \in Scheduled(last'.log) :
             last'.log[i].us >= 1050 /\ last'.log[i].us <= 1500]_vars

\* The first timer of an episode, armed with the largest jitter.
C9_Witness ==
  /\ opts.probe_delay_initial_ms = 1
  /\ last.op = "onReply" /\ last.arg = "mc_res_connect_error"
  /\ last.was = "Healthy" /\ tko.class = "HardTko"
  /\ HasCall("start_sending_probes")
  /\ \E i \in Scheduled(last.log) : last.log[i].us = 1500
  /\ pd[last.d].probe_delay_next_ms = 2
  /\ timers[last.d] = 1

TrackerCalls ==
  {"recordHardFailure", "recordSoftFailure", "recordSuccess", "onTkoEvent",
   "start_sending_probes", "stop_sending_probes", "schedule_next_probe"}

\* C10: resetInactive on a destination that has a client: an on_down
\* delivered while the client is closed leaves the state Closed; neither it
\* nor a reply handled meanwhile records a failure or a success, emits a TKO
\* event or starts or stops the probe loop; afterwards resetting is 0 and
\* the client handle is empty.
C10_ResetInactive ==
  [][\A d \in Dests :
       (/\ last'.op = "resetInactive" /\ last'.d = d
        /\ pd[d].client # "none")
       => /\ NCalls(last'.log, "closeNow") = 1
          /\ NCalls(last'.log, "on_down") > 0 => pd'[d].state = "kClosed"
          /\ pd[d].client = "up" => NCalls(last'.log, "on_down") > 0
          /\ \A i \in 1..Len(last'.log) :
               last'.log[i].call \notin TrackerCalls
          /\ tko' = tko
          /\ timers' = timers
          /\ pd'[d].sending_probes = pd[d].sending_probes
          /\ pd'[d].probe_timer = pd[d].probe_timer
          /\ pd'[d].resetting = 0
          /\ pd'[d].client = "none"]_vars

\* A reset of a connected destination that is probing, with a reply handed
\* over while the client closes.
C10_Witness ==
  /\ last.op = "resetInactive" /\ last.arg = "mc_res_connect_error"
  /\ HasCall("on_down") /\ HasCall("insertSample")
  /\ pd[last.d].state = "kClosed" /\ pd[last.d].client = "none"
  /\ pd[last.d].sending_probes
  /\ stats["num_servers_closed_stat"] = 1

\* The destructor of d runs in this step.
Destroyed(d) == pd[d].alive # "dead" /\ pd'[d].alive = "dead"

\* C11: a destination whose destructor has run has no timer armed and no
\* probe task that can reach it: the tasks it had queued fail to upgrade
\* their weak handle and change nothing, and the destructor runs only when
\* no probe task is between its weak-handle upgrade and probe_req.reset()
\* (a task that holds the last strong handle destroys the destination after
\* its probe_req.reset()).
C11_NothingAfterDestructor ==
  /\ [](\A d \in Dests :
          pd[d].alive = "dead" =>
            timers[d] = 0 /\ task[d].queued = 0 /\ task[d].sent = 0)
  /\ [][/\ \A d \in Dests :
            Destroyed(d) =>
              /\ timers'[d] = 0 /\ task'[d].sent = 0
              /\ orphans' = orphans + task[d].queued
              /\ (task[d].sent > 0 =>
                   \E i \in Calls(last'.log, "probe_req.reset") :
                     \A j \in Calls(last'.log, "removeDestination") : i < j)
         /\ (last'.op = "probe_orphan" =>
              /\ pd' = pd /\ tko' = tko /\ stats' = stats
              /\ timers' = timers /\ task' = task)
         /\ abort' \notin {"on_timer", "schedule_next_probe"}]_vars

\* A probe task that was queued when its probing destination was destroyed
\* has run and found the destination gone.
C11_Witness ==
  /\ last.op = "probe_orphan"
  /\ pd[1].alive = "dead"
  /\ tko.class = "HardTko"
  /\ timers[1] = 0 /\ orphans = 0

\* A hard TKO error handled by d2 while the endpoint is SoftTko and another
\* destination d1 is responsible and probing.
HardErrorByOther(d1, d2) ==
  /\ d1 # d2
  /\ tko.class = "SoftTko" /\ tko.responsible = d1
  /\ pd[d1].sending_probes /\ ~pd[d2].sending_probes
  /\ last'.d = d2
  /\ last'.op \in {"onReply", "on_down"}
  /\ last'.op = "onReply" => last'.arg = "mc_res_connect_error"

\* C12: when the endpoint is SoftTko with d1 responsible and probing and
\* another destination d2 observes a hard TKO error, the endpoint becomes
\* HardTko, exactly one MarkHardTko event is emitted, one destination is
\* responsible afterwards, and the responsible destination is the one that
\* runs the probe loop.
C12_UpgradeKeepsOneLoop ==
  [][\A d1, d2 \in Dests :
       HardErrorByOther(d1, d2) =>
         /\ tko'.class = "HardTko"
         /\ Cardinality(Events(last'.log, "MarkHardTko")) = 1
         /\ tko'.responsible \in Dests
         /\ {d \in Dests : pd'[d].alive # "dead" /\ pd'[d].sending_probes}
              = {tko'.responsible}]_vars

\* What the upgrade does: HardTko, one MarkHardTko event, d2 responsible and
\* probing, and d1 probing as before.
UpgradeElects ==
  [][\A d1, d2 \in Dests :
       HardErrorByOther(d1, d2) =>
         /\ tko'.class = "HardTko"
         /\ Cardinality(Events(last'.log, "MarkHardTko")) = 1
         /\ tko'.responsible = d2
         /\ pd'[d2].sending_probes
         /\ pd'[d1].sending_probes]_vars

\* A timeout as a bound: 0 is "unset", which bounds nothing.
Effective(t) == IF t = 0 THEN MaxTimeout + 2 ELSE t

\* The minimum of the non-zero values of S, 0 when there is none.
MinNonZero(S) ==
  IF S \ {0} = {} THEN 0
  ELSE CHOOSE m \in S \ {0} : \A x \in S \ {0} : m <= x

\* C13: each updateShortestTimeout leaves the effective timeout (0 read as
\* unset) less than or equal to what it was; a call with t = 0 changes
\* neither shortestTimeout nor the client's write timeout; and after any
\* sequence of calls shortestTimeout is the minimum of the non-zero values
\* among server_timeout and the arguments passed, 0 when all are 0.
C13_ShortestTimeout ==
  /\ [](\A d \in Dests :
          pd[d].alive # "dead" =>
            pd[d].shortestTimeout = MinNonZero(given[d]))
  /\ [][last'.op = "updateShortestTimeout" =>
         LET d == last'.d
             t == last'.log[1].ms
         IN  /\ Effective(pd'[d].shortestTimeout)
                  <= Effective(pd[d].shortestTimeout)
             /\ pd[d].client # "none" =>
                  Effective(pd'[d].writeTimeout)
                    <= Effective(pd[d].writeTimeout)
             /\ pd'[d].shortestTimeout \in {pd[d].shortestTimeout, t}
             /\ t = 0 => /\ pd'[d].shortestTimeout = pd[d].shortestTimeout
                         /\ pd'[d].writeTimeout = pd[d].writeTimeout]_vars

\* A destination with a client that was given 0, 1 and 2 has 1.
C13_Witness ==
  /\ last.op = "updateShortestTimeout"
  /\ given[1] = 0..2
  /\ pd[1].shortestTimeout = 1
  /\ pd[1].client # "none" /\ pd[1].writeTimeout = 1

\* The MarkHardTko, MarkSoftTko and UnMarkTko events of a handler's log.
MarkEvents(log) ==
  Events(log, "MarkHardTko") \cup Events(log, "MarkSoftTko")
    \cup Events(log, "UnMarkTko")

\* The event that reports a change to the classification class.
EventFor(class) ==
  CASE class = "HardTko" -> "MarkHardTko"
    [] class = "SoftTko" -> "MarkSoftTko"
    [] class = "Healthy" -> "UnMarkTko"

\* C14: every change of the classification comes, in the same step, with
\* exactly one TKO event, the one that reports the new classification; every
\* MarkHardTko, MarkSoftTko or UnMarkTko event comes with a change of the
\* classification; no UnMarkTko is emitted while the endpoint stays TKO.
C14_EventPerChange ==
  [][/\ (tko'.class # tko.class =>
          /\ NCalls(last'.log, "onTkoEvent") = 1
          /\ Cardinality(Events(last'.log, EventFor(tko'.class))) = 1)
     /\ (MarkEvents(last'.log) # {} => tko'.class # tko.class)
     /\ (Events(last'.log, "UnMarkTko") # {} => tko'.class = "Healthy")]_vars

\* No UnMarkTko is emitted while the endpoint stays TKO.
UnMarkOnlyWhenHealthy ==
  [][Events(last'.log, "UnMarkTko") # {} => tko'.class = "Healthy"]_vars

\* Every change of the classification comes with an event.
ChangeHasEvent ==
  [][tko'.class # tko.class => NCalls(last'.log, "onTkoEvent") = 1]_vars

\* C15: a resetInactive that follows a resetInactive of the same
\* destination, with nothing in between, changes nothing: the destination,
\* the gauges, the tracker and the timers are as the first call left them,
\* and it closes no client, delivers no on_down or reply and does not set
\* resetting.
C15_ResetInactiveIdempotent ==
  [][(/\ last.op = "resetInactive" /\ last'.op = "resetInactive"
      /\ last'.d = last.d)
     => /\ pd' = pd /\ stats' = stats /\ tko' = tko
        /\ timers' = timers /\ task' = task
        /\ last'.log = <<>>]_vars

\* The second of two calls after the first one closed a connected client.
C15_Witness ==
  /\ last.op = "resetInactive" /\ last.log = <<>>
  /\ pd[last.d].state = "kClosed" /\ pd[last.d].client = "none"
  /\ pd[last.d].resetting = 0
  /\ stats["num_servers_closed_stat"] = 1

\* C16: start_sending_probes is only called on a destination whose
\* sending_probes is false: its assertion never fails, whatever replies
\* handle_tko is fed.
C16_StartNeverAsserts == abort # "start_sending_probes"

\* The assertion does not fail for an error handled on a Healthy endpoint.
StartNeverAssertsOnHealthy ==
  ~(abort = "start_sending_probes" /\ last.was = "Healthy")

\* The assertion does not fail for a hard error handled by the destination
\* responsible for a SoftTko.
StartNeverAssertsOnUpgrade ==
  ~(abort = "start_sending_probes" /\ last.was = "SoftTko")

\* C17 as claimed: a destination with sending_probes set has a probe timer
\* armed or a probe request in flight, and never both.
C17_TimerXorProbe ==
  \A d \in Dests :
    (pd[d].alive # "dead" /\ pd[d].sending_probes) =>
      (timers[d] > 0) # pd[d].probe_req

\* C17 as amended: a destination with sending_probes set always has exactly
\* one probe timer armed, and at most one probe request in flight, which
\* may be in flight while the timer is armed.
C17_TimerAlwaysArmed ==
  \A d \in Dests :
    (pd[d].alive # "dead" /\ pd[d].sending_probes) =>
      /\ timers[d] = 1 /\ pd[d].probe_timer
      /\ task[d].queued + task[d].sent <= 1
      /\ pd[d].probe_req <=> (task[d].queued + task[d].sent = 1)

\* A probe is in flight and the next timer is armed.
C17_Witness ==
  /\ pd[1].alive = "live" /\ pd[1].sending_probes
  /\ timers[1] = 1 /\ pd[1].probe_req /\ task[1].sent = 1
  /\ last.op = "on_timer"

\* start_sending_probes followed at once by stop_sending_probes, from the
\* current state of destination d and the draw r.
StartThenStop(d, r) ==
  stop_sending_probes(start_sending_probes(World, d, r), d)

\* C18: a destination whose sending_probes is false has no probe timer
\* armed and probesSent = 0; start_sending_probes followed at once by
\* stop_sending_probes leaves the flag clear, no timer armed and probesSent
\* 0; and a probe reply that finds or leaves the flag clear leaves
\* probesSent 0.
C18_IdleScheduler ==
  /\ [](\A d \in Dests :
          (pd[d].alive # "dead" /\ ~pd[d].sending_probes) =>
            /\ timers[d] = 0 /\ ~pd[d].probe_timer
            /\ pd[d].probesSent = 0
            /\ \A r \in RandDraws :
                 /\ StartThenStop(d, r).abort = abort
                 /\ ~StartThenStop(d, r).pd[d].sending_probes
                 /\ ~StartThenStop(d, r).pd[d].probe_timer
                 /\ StartThenStop(d, r).timers[d] = 0
                 /\ StartThenStop(d, r).pd[d].probesSent = 0)
  /\ [][\A d \in Dests :
          (/\ last'.op = "probe_reply" /\ last'.d = d
           /\ pd'[d].alive # "dead" /\ ~pd'[d].sending_probes)
          => pd'[d].probesSent = 0 /\ timers'[d] = 0]_vars

\* The reply of the second probe of an episode stops the loop: the event
\* reports two probes and the count is 0 afterwards.
C18_Witness ==
  /\ last.op = "probe_reply" /\ last.arg = "mc_res_ok"
  /\ \E i \in Events(last.log, "UnMarkTko") : last.log[i].ms = 2
  /\ HasCall("stop_sending_probes")
  /\ pd[last.d].alive = "live"
  /\ ~pd[last.d].sending_probes /\ pd[last.d].probesSent = 0
  /\ timers[last.d] = 0

\* The calls by which handle_tko classifies a reply.
ClassifierCalls ==
  {"recordHardFailure", "recordSoftFailure", "recordSuccess", "onTkoEvent"}

\* C19: onReply updates the per-result counter and the average latency with
\* the reply before handle_tko classifies it, so that a TKO event emitted
\* for the reply is emitted after the reply's latency sample was inserted.
C19_StatsBeforeClassification ==
  [][last'.op = "onReply" =>
       \A i \in 1..Len(last'.log) :
         last'.log[i].call \in ClassifierCalls =>
           /\ \E j \in Calls(last'.log, "stats_.results") : j < i
           /\ \E j \in Calls(last'.log, "insertSample") : j < i]_vars

\* What onReply does: when it returns, the counter and the latency were
\* updated once each, after every call of the classification.
StatsAfterClassification ==
  [][(last'.op = "onReply" /\ abort' = "none") =>
       /\ NCalls(last'.log, "stats_.results") = 1
       /\ NCalls(last'.log, "insertSample") = 1
       /\ \A i \in 1..Len(last'.log) :
            last'.log[i].call \in ClassifierCalls =>
              \A j \in Calls(last'.log, "stats_.results")
                        \cup Calls(last'.log, "insertSample") : i < j]_vars

\* C20: a destination that has a client has its shortestTimeout as the
\* client's write timeout, through timeout updates, lazy creation of the
\* client, resetInactive and creation again; and a probe is sent with the
\* shortestTimeout the destination has when the probe task runs.
C20_WriteTimeout ==
  /\ [](\A d \in Dests :
          (pd[d].alive # "dead" /\ pd[d].client # "none") =>
            pd[d].writeTimeout = pd[d].shortestTimeout)
  /\ [][last'.op = "probe_start" =>
         /\ NCalls(last'.log, "sendSync") = 1
         /\ pd'[last'.d].client # "none"
         /\ \A i \in Calls(last'.log, "sendSync") :
              /\ last'.log[i].ms = pd[last'.d].shortestTimeout
              /\ last'.log[i].ms = pd'[last'.d].writeTimeout]_vars

\* A probe that creates the client, for a destination that was given the
\* timeouts 0, 1 and 2, is sent with 1.
C20_Witness ==
  /\ last.op = "probe_start"
  /\ HasCall("initializeAsyncMcClient")
  /\ given[1] = 0..2
  /\ \E i \in Calls(last.log, "sendSync") : last.log[i].ms = 1
  /\ pd[1].client # "none" /\ pd[1].writeTimeout = 1

=============================================================================
